---- MODULE Spec2Model ----
(***************************************************************************)
(* The audit-trail service of brainsait-rcm                                *)
(* (src/services/audit-service/src/main.py, kafka_producer.py, models.py). *)
(*                                                                         *)
(* One asyncio event loop serves the handlers: a handler runs without      *)
(* interruption between two awaits that suspend.  log_audit_event suspends *)
(* only at `await insert_one` (main.py:180); `await send_event`            *)
(* (main.py:185) never suspends, because send_event has no suspending      *)
(* await of its own (future.get at kafka_producer.py:86 blocks the loop).  *)
(* So a submit is three steps: up to the insert call, the store applying   *)
(* (or refusing) the write, and the rest of the handler.                   *)
(*                                                                         *)
(* compute_event_hash (main.py:112-115) digests json.dumps(event_data).    *)
(* event_data["timestamp"] is always a datetime (main.py:169) and the      *)
(* standard json encoder raises TypeError on a datetime, so in the code as *)
(* written every submit ends in the except branch (main.py:206-211)        *)
(* before the insert.  The variable datetime_encodable states whether the  *)
(* encoder accepts a datetime: Spec fixes it to FALSE (the code as         *)
(* written); SpecEncodable fixes it to TRUE, which makes the rest of the   *)
(* handler (main.py:174-204) reachable so that it can be examined.         *)
(*                                                                         *)
(* The read paths (health_check, query_audit_logs, get_resource_timeline)  *)
(* leave the service's state alone; their answer is kept in reply.         *)
(* SpecQuery, SpecPagination and SpecTimeline start from a stored          *)
(* collection and apply one read.  SpecBroker keeps, in blocked, the call  *)
(* that holds the event loop inside the synchronous Kafka client.          *)
(* SpecLogger is the AuditLogger of src/services/audit-logger/logger.py    *)
(* over its own collection, audit_log.                                     *)
(* SpecAddresses and SpecRecorder are its recording operations,            *)
(* SpecScanner its scan beside a ledger the service has filled.            *)
(* SpecSubmits adds the bodies pydantic refuses to SpecEncodable;          *)
(* SpecOneRun is one run of the process with submits that do not overlap.  *)
(* SpecProducer is the KafkaAuditProducer under every order of its calls,  *)
(* SpecMiddleware the rate limit of src/apps/api/middleware.py.            *)
(***************************************************************************)
EXTENDS Integers, Sequences, FiniteSets, TLC

VARIABLES
    datetime_encodable, \* does json.dumps accept a datetime value
    now,                \* the clock read by datetime.utcnow()
    serving,            \* the process is between lifespan startup and shutdown
    mongo_log,          \* what lifespan logged about MongoDB (main.py:63, 75)
    ledger,             \* rcm.audit_events, in insertion order
    next_oid,           \* source of the _id pymongo gives a document
    last_hash,          \* main.py:49, the chain tip
    kafka_producer,     \* main.py:48, None or the KafkaAuditProducer's fields
    stream,             \* what the broker has accepted
    audit_events_total, \* main.py:36, the counter per (event_type, outcome)
    pc,                 \* where each submit call stands
    request,            \* the AuditLogRequest of each submit call
    event_data,         \* the handler's local event_data
    kafka_log,          \* what send_event logged for the call
    response,           \* what the caller got
    reply,              \* what the caller of a read path got last
    blocked,            \* the call whose handler holds the event loop in a
                        \* synchronous call of the Kafka client, 0 when none
    audit_log,          \* db.audit_log, the collection of audit-logger/logger.py
    _rate_limit_storage \* apps/api/middleware.py:16, admissions per client address

vars == <<datetime_encodable, now, serving, mongo_log, ledger, next_oid,
          last_hash, kafka_producer, stream, audit_events_total, pc, request,
          event_data, kafka_log, response, reply, blocked, audit_log,
          _rate_limit_storage>>

(***************************************************************************)
(* Bounds of the model.                                                    *)
(***************************************************************************)
MaxCalls == 2
MaxClock == 2
MaxStored == 3
MaxTotal == 101
MaxLogged == 6
MaxAccesses == 4
MaxRecorded == 3
MaxLogins == 6
MaxTime == 5
MaxSent == 3
\* apps/api/middleware.py:28: the parameters of the SecurityMiddleware.
rate_limit == 2
rate_window == 2

Calls == 1..MaxCalls
\* The client addresses of the requests to the API.
ClientIps == {"203.0.113.1", "198.51.100.1"}
\* Python's None where a record may stand, and an absent optional timestamp.
None == [none |-> TRUE]
NoTimestamp == -1

\* main.py:49: the sentinel the chain starts from.
genesis == [alg |-> "genesis"]

(***************************************************************************)
(* models.py: the request vocabulary.  The requests are schema-valid.      *)
(***************************************************************************)
Claim1 == [resourceType |-> "Claim", resourceId |-> "c1"]
Actor1 == [userId |-> "u1", username |-> "alice"]

\* A caller-supplied timestamp older than every reading of the clock.
Backdated == 0

AuditLogRequests ==
    { [eventType |-> "USER_LOGIN", actor |-> Actor1, resource |-> None,
       action |-> "EXECUTE", outcome |-> "FAILURE", timestamp |-> NoTimestamp],
      [eventType |-> "DATA_ACCESSED", actor |-> Actor1, resource |-> Claim1,
       action |-> "READ", outcome |-> "SUCCESS", timestamp |-> Backdated] }

Labels == { <<r.eventType, r.outcome>> : r \in AuditLogRequests }

\* models.py:12-40: the enumerations pydantic checks a request body against.
AuditEventType ==
    {"CLAIM_CREATED", "CLAIM_VALIDATED", "CLAIM_SUBMITTED", "CLAIM_APPROVED",
     "CLAIM_DENIED", "USER_LOGIN", "USER_LOGOUT", "PERMISSION_CHANGED",
     "DATA_ACCESSED", "DATA_MODIFIED", "SYSTEM_ERROR"}
AuditAction == {"CREATE", "READ", "UPDATE", "DELETE", "EXECUTE"}
AuditOutcome == {"SUCCESS", "FAILURE", "PARTIAL"}

\* Bodies a caller may post besides the requests above: one whose eventType is
\* outside the enumeration, one whose actor.userId is the empty string.
UnknownTypeBody ==
    [eventType |-> "CLAIM_ARCHIVED", actor |-> Actor1, resource |-> Claim1,
     action |-> "READ", outcome |-> "SUCCESS", timestamp |-> NoTimestamp]
EmptyActorBody ==
    [eventType |-> "USER_LOGIN", actor |-> [userId |-> "", username |-> "alice"],
     resource |-> None, action |-> "EXECUTE", outcome |-> "SUCCESS",
     timestamp |-> NoTimestamp]
RequestBodies == AuditLogRequests \cup {UnknownTypeBody, EmptyActorBody}

\* models.py:43-66 as pydantic validates it: the three enumerations are
\* checked; userId and username are declared `str` with no constraint, so any
\* string passes, the empty one included.
AuditLogRequest(body) ==
    /\ body.eventType \in AuditEventType
    /\ body.action \in AuditAction
    /\ body.outcome \in AuditOutcome

(***************************************************************************)
(* main.py:112-115.  json.dumps raises TypeError on a value it cannot      *)
(* encode; the digest of an encodable document is modelled as the pair it  *)
(* is computed from (SHA-256 taken as collision-free).                     *)
(***************************************************************************)
TypeError == [raised |-> "TypeError"]

json_dumps(v) ==
    IF datetime_encodable THEN v ELSE TypeError

\* A variant of compute_event_hash that salts the digest with a value of its own.
compute_event_hash_salted(data, previous_hash) ==
    IF json_dumps(data) = TypeError
    THEN TypeError
    ELSE [alg |-> "sha256", data |-> json_dumps(data), prev |-> previous_hash,
          salt |-> next_oid]

compute_event_hash(data, previous_hash) ==
    IF json_dumps(data) = TypeError
    THEN TypeError
    ELSE [alg |-> "sha256", data |-> json_dumps(data), prev |-> previous_hash]

(***************************************************************************)
(* The state after the module is imported (main.py:46-49), with an empty   *)
(* collection.                                                             *)
(***************************************************************************)
Fresh ==
    /\ now = 1
    /\ serving = FALSE
    /\ mongo_log = "none"
    /\ ledger = <<>>
    /\ next_oid = 1
    /\ last_hash = genesis
    /\ kafka_producer = None
    /\ stream = <<>>
    /\ audit_events_total = [l \in Labels |-> 0]
    /\ pc = [p \in Calls |-> "idle"]
    /\ request = [p \in Calls |-> None]
    /\ event_data = [p \in Calls |-> None]
    /\ kafka_log = [p \in Calls |-> "none"]
    /\ response = [p \in Calls |-> None]
    /\ reply = None
    /\ blocked = 0
    /\ audit_log = <<>>
    /\ _rate_limit_storage = [client_ip \in ClientIps |-> <<>>]

Init == Fresh /\ datetime_encodable = FALSE

InitEncodable == Fresh /\ datetime_encodable = TRUE

(***************************************************************************)
(* The environment.  datetime.utcnow() reads a clock that never goes back: *)
(* a reading is any value from the last reading on.  MongoDB answers a     *)
(* command or does not: each command of the service meets either case.     *)
(***************************************************************************)
utcnow == now..MaxClock

(***************************************************************************)
(* kafka_producer.py.  start (35-50) builds the KafkaProducer, which fails *)
(* when no broker answers; stop (52-57) closes it.  value_serializer       *)
(* (line 40) is json.dumps: it raises TypeError on the ObjectId that       *)
(* insert_one has put into the document under "_id", and on a datetime.    *)
(***************************************************************************)
KafkaStarted(ok) == [producer |-> ok, connected |-> ok]

value_serializer(v) ==
    IF "_id" \in DOMAIN v THEN TypeError ELSE json_dumps(v)

\* A variant of send_event that does not look at the connected flag.
send_event_unchecked(kp, event) ==
    IF value_serializer(event) = TypeError THEN "error" ELSE "sent"

\* send_event (63-95): what it logs; "sent" is the only case that reaches the broker.
send_event(kp, event) ==
    IF ~kp.connected \/ ~kp.producer
    THEN "skipped"
    ELSE IF value_serializer(event) = TypeError THEN "error" ELSE "sent"

(***************************************************************************)
(* main.py:51-93, lifespan.  find_one with sort timestamp descending gives *)
(* a document with the greatest timestamp; which one among equal           *)
(* timestamps is the store's choice.                                       *)
(***************************************************************************)
Latest(docs) ==
    { i \in DOMAIN docs : \A j \in DOMAIN docs : docs[j].timestamp <= docs[i].timestamp }

LoadedHash(docs, i) == docs[i].integrity.hash

lifespan_startup ==
    /\ ~serving
    /\ serving' = TRUE
    /\ \E ping \in {"answered", "timed out"} :
         /\ mongo_log' = IF ping = "answered" THEN "established" ELSE "failed"
         /\ IF ping = "answered" /\ ledger # <<>>
            THEN \E i \in Latest(ledger) : last_hash' = LoadedHash(ledger, i)
            ELSE last_hash' = last_hash
    /\ \E enable_kafka \in BOOLEAN, ok \in BOOLEAN :
          kafka_producer' = IF enable_kafka THEN KafkaStarted(ok) ELSE None
    /\ UNCHANGED <<reply, blocked, audit_log, datetime_encodable, _rate_limit_storage, now, ledger, next_oid, stream,
                   audit_events_total, pc, request, event_data, kafka_log, response>>

InFlight(p) == pc[p] \in {"inserting", "inserted"}

\* Shutdown waits for the calls in flight; the next start imports the module
\* anew, so the globals of main.py:36-49 have their initial values again.
lifespan_shutdown ==
    /\ serving
    /\ \A p \in Calls : ~InFlight(p)
    /\ serving' = FALSE
    /\ mongo_log' = "none"
    /\ last_hash' = genesis
    /\ kafka_producer' = None
    /\ audit_events_total' = [l \in Labels |-> 0]
    /\ UNCHANGED <<reply, blocked, audit_log, datetime_encodable, _rate_limit_storage, now, ledger, next_oid,
                   stream, pc, request, event_data, kafka_log, response>>

(***************************************************************************)
(* main.py:141-211, log_audit_event.                                       *)
(***************************************************************************)
HTTP500 == [status |-> 500, logged |-> FALSE]

\* main.py:156-170: the document before the integrity block.  The three
\* readings of the clock (156, 157, 169) fall within one uninterrupted run of
\* the handler and are taken as one reading t.
EventDocument(req, t) ==
    [audit_id |-> <<"audit", t>>,
     event_id |-> <<"evt", t>>,
     event_type |-> req.eventType,
     actor |-> req.actor,
     resource |-> req.resource,
     action |-> req.action,
     outcome |-> req.outcome,
     timestamp |-> IF req.timestamp # NoTimestamp THEN req.timestamp ELSE t]

\* main.py:174-177, and the _id insert_one adds.
WithIntegrity(data, h, tip, oid) ==
    [audit_id |-> data.audit_id, event_id |-> data.event_id,
     event_type |-> data.event_type, actor |-> data.actor,
     resource |-> data.resource, action |-> data.action,
     outcome |-> data.outcome, timestamp |-> data.timestamp,
     integrity |-> [hash |-> h, previous_hash |-> tip],
     _id |-> oid]

\* A variant of log_audit_event_call that advances the tip before the insert.
log_audit_event_call_tip_first(p, req) ==
    /\ serving
    /\ pc[p] = "idle"
    /\ \A q \in Calls : q < p => pc[q] # "idle"
    /\ \E t \in utcnow :
         /\ now' = t
         /\ LET data == EventDocument(req, t)
                current_hash == compute_event_hash(data, last_hash)
            IN IF current_hash = TypeError
               THEN /\ pc' = [pc EXCEPT ![p] = "failed"]
                    /\ response' = [response EXCEPT ![p] = HTTP500]
                    /\ UNCHANGED <<event_data, next_oid, last_hash>>
               ELSE /\ pc' = [pc EXCEPT ![p] = "inserting"]
                    /\ event_data' = [event_data EXCEPT ![p] =
                           WithIntegrity(data, current_hash, last_hash, next_oid)]
                    /\ next_oid' = next_oid + 1
                    /\ last_hash' = current_hash
                    /\ UNCHANGED response
    /\ request' = [request EXCEPT ![p] = req]
    /\ UNCHANGED <<reply, blocked, audit_log, datetime_encodable, _rate_limit_storage, serving, mongo_log, ledger,
                   kafka_producer, stream, audit_events_total, kafka_log>>

\* main.py:153-180: from the entry to the insert call.
log_audit_event_call(p, req) ==
    /\ serving
    /\ pc[p] = "idle"
    /\ \A q \in Calls : q < p => pc[q] # "idle"
    /\ \E t \in utcnow :
         /\ now' = t
         /\ LET data == EventDocument(req, t)
                current_hash == compute_event_hash(data, last_hash)
            IN IF current_hash = TypeError
               THEN /\ pc' = [pc EXCEPT ![p] = "failed"]
                    /\ response' = [response EXCEPT ![p] = HTTP500]
                    /\ UNCHANGED <<event_data, next_oid>>
               ELSE /\ pc' = [pc EXCEPT ![p] = "inserting"]
                    /\ event_data' = [event_data EXCEPT ![p] =
                           WithIntegrity(data, current_hash, last_hash, next_oid)]
                    /\ next_oid' = next_oid + 1
                    /\ UNCHANGED response
    /\ request' = [request EXCEPT ![p] = req]
    /\ UNCHANGED <<reply, blocked, audit_log, datetime_encodable, _rate_limit_storage, serving, mongo_log, ledger,
                   last_hash, kafka_producer, stream, audit_events_total, kafka_log>>

\* The store applies the write of main.py:180.
insert_one_applied(p) ==
    /\ pc[p] = "inserting"
    /\ ledger' = Append(ledger, event_data[p])
    /\ pc' = [pc EXCEPT ![p] = "inserted"]
    /\ UNCHANGED <<reply, blocked, audit_log, datetime_encodable, _rate_limit_storage, now, serving, mongo_log, next_oid,
                   last_hash, kafka_producer, stream, audit_events_total, request,
                   event_data, kafka_log, response>>

\* main.py:141-142: FastAPI builds the AuditLogRequest from the body before it
\* calls the handler, and answers 422 itself when pydantic refuses the body.
HTTP422 == [status |-> 422, logged |-> FALSE]

request_validation_error(p, body) ==
    /\ serving
    /\ pc[p] = "idle"
    /\ \A q \in Calls : q < p => pc[q] # "idle"
    /\ pc' = [pc EXCEPT ![p] = "rejected"]
    /\ request' = [request EXCEPT ![p] = body]
    /\ response' = [response EXCEPT ![p] = HTTP422]
    /\ UNCHANGED <<reply, blocked, audit_log, datetime_encodable, _rate_limit_storage, now, serving,
                   mongo_log, ledger, next_oid, last_hash, kafka_producer, stream,
                   audit_events_total, event_data, kafka_log>>

post_audit_log(p, body) ==
    IF AuditLogRequest(body)
    THEN log_audit_event_call(p, body)
    ELSE request_validation_error(p, body)

\* A variant of insert_one_raises in which the tip has moved although the
\* insert failed.
insert_one_raises_tip_moved(p) ==
    /\ pc[p] = "inserting"
    /\ pc' = [pc EXCEPT ![p] = "failed"]
    /\ response' = [response EXCEPT ![p] = HTTP500]
    /\ last_hash' = event_data[p].integrity.hash
    /\ UNCHANGED <<reply, blocked, audit_log, datetime_encodable, _rate_limit_storage, now, serving, mongo_log, ledger,
                   next_oid, kafka_producer, stream, audit_events_total,
                   request, event_data, kafka_log>>

\* A variant of insert_one_raises in which the event was handed to the
\* publisher before the insert.
insert_one_raises_handed_over(p) ==
    /\ pc[p] = "inserting"
    /\ pc' = [pc EXCEPT ![p] = "failed"]
    /\ response' = [response EXCEPT ![p] = HTTP500]
    /\ kafka_log' = [kafka_log EXCEPT ![p] = "error"]
    /\ UNCHANGED <<reply, blocked, audit_log, datetime_encodable, _rate_limit_storage,
                   now, serving, mongo_log, ledger, next_oid, last_hash,
                   kafka_producer, stream, audit_events_total, request, event_data>>

\* A variant of insert_one_raises that counts the event although the insert
\* failed.
insert_one_raises_counted(p) ==
    /\ pc[p] = "inserting"
    /\ pc' = [pc EXCEPT ![p] = "failed"]
    /\ response' = [response EXCEPT ![p] = HTTP500]
    /\ audit_events_total' =
          [audit_events_total EXCEPT ![<<request[p].eventType, request[p].outcome>>] = @ + 1]
    /\ UNCHANGED <<reply, blocked, audit_log, datetime_encodable, _rate_limit_storage,
                   now, serving, mongo_log, ledger, next_oid, last_hash,
                   kafka_producer, stream, request, event_data, kafka_log>>

\* A variant of insert_one_raises in which the store kept the document
\* although the insert raised.
insert_one_raises_document_kept(p) ==
    /\ pc[p] = "inserting"
    /\ pc' = [pc EXCEPT ![p] = "failed"]
    /\ response' = [response EXCEPT ![p] = HTTP500]
    /\ ledger' = Append(ledger, event_data[p])
    /\ UNCHANGED <<reply, blocked, audit_log, datetime_encodable, _rate_limit_storage,
                   now, serving, mongo_log, next_oid, last_hash, kafka_producer,
                   stream, audit_events_total, request, event_data, kafka_log>>

\* The store refuses the write: insert_one raises, main.py:206-211 answers.
insert_one_raises(p) ==
    /\ pc[p] = "inserting"
    /\ pc' = [pc EXCEPT ![p] = "failed"]
    /\ response' = [response EXCEPT ![p] = HTTP500]
    /\ UNCHANGED <<reply, blocked, audit_log, datetime_encodable, _rate_limit_storage, now, serving, mongo_log, ledger,
                   next_oid, last_hash, kafka_producer, stream, audit_events_total,
                   request, event_data, kafka_log>>

\* main.py:195-204.
AuditLogResponse(ev, current_hash, tip, t) ==
    [auditId |-> ev.audit_id, eventId |-> ev.event_id, logged |-> TRUE,
     timestamp |-> t,
     integrity |-> [hash |-> current_hash, previousHash |-> tip]]

\* A variant of log_audit_event_resume in which an exception of send_event
\* reaches the handler's except branch.
log_audit_event_resume_publish_raises(p) ==
    /\ pc[p] = "inserted"
    /\ \E t \in utcnow :
         /\ now' = t
         /\ LET current_hash == event_data[p].integrity.hash
                label == <<request[p].eventType, request[p].outcome>>
                sent == IF kafka_producer # None
                        THEN send_event(kafka_producer, event_data[p])
                        ELSE "none"
            IN /\ last_hash' = current_hash
               /\ kafka_log' = [kafka_log EXCEPT ![p] = sent]
               /\ stream' = stream
               /\ IF sent = "error"
                  THEN /\ pc' = [pc EXCEPT ![p] = "failed"]
                       /\ response' = [response EXCEPT ![p] = HTTP500]
                       /\ UNCHANGED audit_events_total
                  ELSE /\ pc' = [pc EXCEPT ![p] = "done"]
                       /\ audit_events_total' =
                              [audit_events_total EXCEPT ![label] = @ + 1]
                       /\ response' = [response EXCEPT ![p] =
                              AuditLogResponse(event_data[p], current_hash,
                                               last_hash', t)]
    /\ UNCHANGED <<reply, blocked, audit_log, datetime_encodable, _rate_limit_storage, serving, mongo_log, ledger,
                   next_oid, kafka_producer, request, event_data>>

\* main.py:181-204: the handler after the insert returned.
log_audit_event_after_insert(p) ==
    /\ pc[p] = "inserted"
    /\ \E t \in utcnow :
         /\ now' = t
         /\ LET current_hash == event_data[p].integrity.hash
                label == <<request[p].eventType, request[p].outcome>>
                sent == IF kafka_producer # None
                        THEN send_event(kafka_producer, event_data[p])
                        ELSE "none"
            IN /\ last_hash' = current_hash
               /\ kafka_log' = [kafka_log EXCEPT ![p] = sent]
               /\ stream' = IF sent = "sent" THEN Append(stream, event_data[p])
                            ELSE stream
               /\ audit_events_total' =
                      [audit_events_total EXCEPT ![label] = @ + 1]
               /\ response' = [response EXCEPT ![p] =
                      AuditLogResponse(event_data[p], current_hash, last_hash', t)]
    /\ pc' = [pc EXCEPT ![p] = "done"]
    /\ UNCHANGED <<reply, audit_log, datetime_encodable, _rate_limit_storage, serving, mongo_log,
                   ledger, next_oid, kafka_producer, request, event_data>>

\* The same seen as one step: nothing else runs on the event loop between
\* main.py:181 and the return.
log_audit_event_resume(p) ==
    /\ log_audit_event_after_insert(p)
    /\ UNCHANGED blocked

(***************************************************************************)
(* kafka_producer.py:74-86.  send_event is declared async but awaits       *)
(* nothing: producer.send and future.get(timeout=10) are calls of the      *)
(* synchronous Kafka client, made on the thread of the event loop.  While  *)
(* the client waits for the broker the loop runs no other coroutine; the   *)
(* store, which motor drives from a worker thread, still applies writes.   *)
(* blocked names the call whose handler is inside the client.              *)
(***************************************************************************)
Publishing(kp) == kp # None /\ kp.connected /\ kp.producer

\* main.py:181-185 up to the call into the client.
send_event_waits(p) ==
    /\ pc[p] = "inserted"
    /\ blocked = 0
    /\ Publishing(kafka_producer)
    /\ last_hash' = event_data[p].integrity.hash
    /\ blocked' = p
    /\ UNCHANGED <<reply, audit_log, datetime_encodable, _rate_limit_storage, now, serving, mongo_log,
                   ledger, next_oid, kafka_producer, stream, audit_events_total,
                   pc, request, event_data, kafka_log, response>>

\* The client returns, raises or gives up at its timeout, and the handler runs
\* to its return (kafka_producer.py:86-95, main.py:187-204).
send_event_returns(p) ==
    /\ blocked = p
    /\ blocked' = 0
    /\ \E broker \in {"accepts", "rejects", "never answers"} :
          log_audit_event_after_insert(p)

\* A step of a handler needs the event loop.
on_event_loop(step) == blocked = 0 /\ step

(***************************************************************************)
(* The read paths.  health_check (main.py:117-139) pings the store and     *)
(* reads the producer's flag; query_audit_logs (213-286) issues            *)
(* count_documents and find; get_resource_timeline (288-327) issues find;  *)
(* AuditLogger.detect_suspicious_activity (audit-logger/logger.py:232-291) *)
(* issues count_documents and aggregate on its own collection db.audit_log.*)
(* None of them issues a write or assigns a global, and what they return   *)
(* goes to the caller: as steps of the service they change nothing.        *)
(***************************************************************************)
health_check ==
    /\ serving
    /\ UNCHANGED vars

\* A variant of query_audit_logs that removes the oldest document it read.
query_audit_logs_removing ==
    /\ serving
    /\ ledger # <<>>
    /\ ledger' = Tail(ledger)
    /\ UNCHANGED <<reply, blocked, audit_log, datetime_encodable, _rate_limit_storage, now, serving, mongo_log, next_oid,
                   last_hash, kafka_producer, stream, audit_events_total, pc,
                   request, event_data, kafka_log, response>>

query_audit_logs ==
    /\ serving
    /\ UNCHANGED vars

get_resource_timeline ==
    /\ serving
    /\ UNCHANGED vars

detect_suspicious_activity ==
    /\ UNCHANGED vars

(***************************************************************************)
(* The read paths with the answer the caller gets, which is kept in reply. *)
(***************************************************************************)
\* main.py:120-139: the health document for an outcome of the ping.  The
\* status is set at 121 and at 132 only; the kafka field is present when a
\* producer object exists.
health(ping, kp, t) ==
    [kind |-> "health",
     status |-> IF ping = "answered" THEN "healthy" ELSE "unhealthy",
     timestamp |-> t,
     mongodb |-> IF ping = "answered" THEN "connected" ELSE "disconnected",
     kafka |-> IF kp = None THEN "absent"
               ELSE IF kp.connected THEN "connected" ELSE "disconnected"]

health_check_call ==
    /\ serving
    /\ blocked = 0
    /\ \E t \in utcnow, ping \in {"answered", "timed out"} :
         /\ now' = t
         /\ reply' = health(ping, kafka_producer, t)
    /\ UNCHANGED <<blocked, audit_log, datetime_encodable, _rate_limit_storage, serving, mongo_log,
                   ledger, next_oid, last_hash, kafka_producer, stream,
                   audit_events_total, pc, request, event_data, kafka_log, response>>

(***************************************************************************)
(* main.py:213-286, query_audit_logs.  A string parameter that is absent   *)
(* or empty is falsy and adds no condition (233-240).  A date parameter is *)
(* absent, the ISO-8601 text of an instant, or some other text;            *)
(* datetime.fromisoformat (244, 246) gives the instant of the former and   *)
(* raises ValueError on the latter.                                        *)
(***************************************************************************)
iso(t) == [iso |-> t]
NotADate == [text |-> "yesterday"]
fromisoformat_raises(d) == "iso" \notin DOMAIN d
fromisoformat(d) == d.iso

\* The values FastAPI accepts for limit (main.py:222).
MaxLimit == 500

QueryParams ==
    [actor_id : {"", "u1", "u2"},
     resource_type : {"", "Claim"},
     resource_id : {"", "c1"},
     event_type : {"", "USER_LOGIN"},
     start_date : {None, iso(1), NotADate},
     end_date : {None, iso(1), NotADate},
     page : {1, 2},
     limit : {1, 2, MaxLimit}]

\* The queries with no other parameter than a start date.
QueriesByStartDate ==
    { q \in QueryParams :
        /\ q.actor_id = "" /\ q.resource_type = "" /\ q.resource_id = ""
        /\ q.event_type = "" /\ q.end_date = None
        /\ q.page = 1 /\ q.limit = MaxLimit }

\* main.py:231-246: the filter document, as MongoDB applies it to a document.
Matches(doc, q) ==
    /\ (q.actor_id # "") => (doc.actor.userId = q.actor_id)
    /\ (q.resource_type # "") =>
          (doc.resource # None /\ doc.resource.resourceType = q.resource_type)
    /\ (q.resource_id # "") =>
          (doc.resource # None /\ doc.resource.resourceId = q.resource_id)
    /\ (q.event_type # "") => (doc.event_type = q.event_type)
    /\ (q.start_date # None) => (doc.timestamp >= fromisoformat(q.start_date))
    /\ (q.end_date # None) => (doc.timestamp <= fromisoformat(q.end_date))

Matching(docs, q) == { i \in DOMAIN docs : Matches(docs[i], q) }

\* main.py:249.
count_documents(docs, q) == Cardinality(Matching(docs, q))

\* A cursor sorted on timestamp (direction -1 or 1): the positions of the
\* documents in an order the sort allows.  The order among equal timestamps
\* is the store's choice; with distinct timestamps there is one order, in which
\* a document stands after the documents that sort before it.
Precedes(docs, direction, i, j) ==
    IF direction = 1
    THEN docs[i].timestamp < docs[j].timestamp
    ELSE docs[i].timestamp > docs[j].timestamp

Sorted(docs, I, direction) ==
    IF \A i, j \in I : i # j => docs[i].timestamp # docs[j].timestamp
    THEN { SortSeq(SelectSeq([k \in DOMAIN docs |-> k], LAMBDA k : k \in I),
                   LAMBDA i, j : Precedes(docs, direction, i, j)) }
    ELSE { s \in [1..Cardinality(I) -> I] :
             /\ \A a, b \in DOMAIN s : a # b => s[a] # s[b]
             /\ \A a, b \in DOMAIN s :
                   a < b => ~Precedes(docs, direction, s[b], s[a]) }

\* A variant of to_list that starts at the first document whatever the skip.
to_list_unskipped(s, skip, length) ==
    SubSeq(s, 1, IF Len(s) < length THEN Len(s) ELSE length)

\* cursor.skip(skip).limit(length) and to_list(length).
to_list(s, skip, length) ==
    SubSeq(s, skip + 1, IF Len(s) < skip + length THEN Len(s) ELSE skip + length)

\* main.py:258-267.
AuditEvent(e) ==
    [auditId |-> e.audit_id, eventType |-> e.event_type, actor |-> e.actor,
     resource |-> e.resource, action |-> e.action, outcome |-> e.outcome,
     timestamp |-> e.timestamp]

\* A variant of totalPages that rounds down.
totalPages_rounded_down(total, limit) == total \div limit

\* main.py:277.
totalPages(total, limit) == (total + limit - 1) \div limit

\* main.py:273-278.
pagination(page, limit, total) ==
    [page |-> page, limit |-> limit, total |-> total,
     totalPages |-> totalPages(total, limit)]

\* main.py:271-279.
AuditQueryResponse(q, events, total) ==
    [kind |-> "query", status |-> 200, asked |-> q, events |-> events,
     pagination |-> pagination(q.page, q.limit, total)]

\* main.py:281-286.
QueryFailed(q) == [kind |-> "query", status |-> 500, asked |-> q]

query_audit_logs_call(q) ==
    /\ serving
    /\ blocked = 0
    /\ IF \/ q.start_date # None /\ fromisoformat_raises(q.start_date)
          \/ q.end_date # None /\ fromisoformat_raises(q.end_date)
       THEN reply' = QueryFailed(q)
       ELSE \E s \in Sorted(ledger, Matching(ledger, q), -1) :
              LET found == to_list(s, (q.page - 1) * q.limit, q.limit)
              IN reply' = AuditQueryResponse(q,
                              [k \in DOMAIN found |-> AuditEvent(ledger[found[k]])],
                              count_documents(ledger, q))
    /\ UNCHANGED <<blocked, audit_log, datetime_encodable, _rate_limit_storage, now, serving, mongo_log,
                   ledger, next_oid, last_hash, kafka_producer, stream,
                   audit_events_total, pc, request, event_data, kafka_log, response>>

(***************************************************************************)
(* main.py:288-327, get_resource_timeline.                                 *)
(***************************************************************************)
\* main.py:302: the length given to to_list.
TimelineCap == 1000

\* main.py:296-299.
OfResource(docs, resource_type, resource_id) ==
    { i \in DOMAIN docs :
        /\ docs[i].resource # None
        /\ docs[i].resource.resourceType = resource_type
        /\ docs[i].resource.resourceId = resource_id }

\* main.py:305-312; the actor of a stored event has a username.
TimelineEntry(e) ==
    [timestamp |-> e.timestamp, eventType |-> e.event_type,
     actor |-> e.actor.username, action |-> e.action, outcome |-> e.outcome]

\* main.py:316-320.
TimelineResponse(resource_type, resource_id, timeline) ==
    [kind |-> "timeline", status |-> 200, resourceType |-> resource_type,
     resourceId |-> resource_id, timeline |-> timeline]

\* A variant of get_resource_timeline_call that sorts newest first.
get_resource_timeline_call_descending(resource_type, resource_id) ==
    /\ serving
    /\ blocked = 0
    /\ \E s \in Sorted(ledger, OfResource(ledger, resource_type, resource_id), -1) :
         LET events == to_list(s, 0, TimelineCap)
         IN reply' = TimelineResponse(resource_type, resource_id,
                         [k \in DOMAIN events |-> TimelineEntry(ledger[events[k]])])
    /\ UNCHANGED <<blocked, audit_log, datetime_encodable, _rate_limit_storage, now, serving, mongo_log,
                   ledger, next_oid, last_hash, kafka_producer, stream,
                   audit_events_total, pc, request, event_data, kafka_log, response>>

get_resource_timeline_call(resource_type, resource_id) ==
    /\ serving
    /\ blocked = 0
    /\ \E s \in Sorted(ledger, OfResource(ledger, resource_type, resource_id), 1) :
         LET events == to_list(s, 0, TimelineCap)
         IN reply' = TimelineResponse(resource_type, resource_id,
                         [k \in DOMAIN events |-> TimelineEntry(ledger[events[k]])])
    /\ UNCHANGED <<blocked, audit_log, datetime_encodable, _rate_limit_storage, now, serving, mongo_log,
                   ledger, next_oid, last_hash, kafka_producer, stream,
                   audit_events_total, pc, request, event_data, kafka_log, response>>

(***************************************************************************)
(* audit-logger/logger.py, the AuditLogger over db.audit_log, and the      *)
(* other writer of that collection, _audit_log of apps/api/main.py.        *)
(* log_event stores event.model_dump(mode='json') (logger.py:45): in that  *)
(* mode pydantic renders the datetime timestamp as its ISO-8601 text.      *)
(* _audit_log stores the datetime itself, which is a BSON date.  A         *)
(* comparison of MongoDB matches values of the type of its operand only:   *)
(* {"$gte": <date>} matches no text.                                       *)
(***************************************************************************)
bson_date(t) == [date |-> t]

\* logger.py:122-132, the event log_authentication builds.
AuthenticationEvent(t, success) ==
    [timestamp |-> t, event_type |-> "LOGIN", user_id |-> "u1",
     username |-> "alice", resource_type |-> "Authentication",
     action |-> "LOGIN", status |-> IF success THEN "SUCCESS" ELSE "FAILURE",
     ip_address |-> "10.0.0.1", phi_accessed |-> FALSE]

model_dump_json(event) == [event EXCEPT !.timestamp = iso(@)]

\* A variant of log_event that returns True whether or not the insert went
\* through.
log_event_reports_true(event) ==
    /\ Len(audit_log) < MaxLogged
    /\ \E inserted \in BOOLEAN :
         /\ audit_log' = IF inserted
                         THEN Append(audit_log, model_dump_json(event))
                         ELSE audit_log
         /\ reply' = [kind |-> "log_event", status |-> 200, returned |-> TRUE]
    /\ UNCHANGED <<blocked, datetime_encodable, _rate_limit_storage, serving, mongo_log, ledger,
                   next_oid, last_hash, kafka_producer, stream, audit_events_total,
                   pc, request, event_data, kafka_log, response>>

\* logger.py:42-56: True when the insert went through, False when it raised.
log_event(event) ==
    /\ Len(audit_log) < MaxLogged
    /\ \E inserted \in BOOLEAN :
         /\ audit_log' = IF inserted
                         THEN Append(audit_log, model_dump_json(event))
                         ELSE audit_log
         /\ reply' = [kind |-> "log_event", status |-> 200, returned |-> inserted]
    /\ UNCHANGED <<blocked, datetime_encodable, _rate_limit_storage, serving, mongo_log, ledger,
                   next_oid, last_hash, kafka_producer, stream, audit_events_total,
                   pc, request, event_data, kafka_log, response>>

\* logger.py:112-133.
log_authentication(success) ==
    \E t \in utcnow :
        /\ now' = t
        /\ log_event(AuthenticationEvent(t, success))

\* apps/api/main.py:970-980, as called at a login (721).
api_audit_log ==
    /\ Len(audit_log) < MaxLogged
    /\ \E t \in utcnow :
         /\ now' = t
         /\ audit_log' = Append(audit_log,
                [timestamp |-> bson_date(t), action |-> "LOGIN", user_id |-> "u1"])
    /\ UNCHANGED <<reply, blocked, datetime_encodable, _rate_limit_storage, serving, mongo_log, ledger,
                   next_oid, last_hash, kafka_producer, stream, audit_events_total,
                   pc, request, event_data, kafka_log, response>>

\* timedelta(days=1) (logger.py:238) in readings of the clock, and the
\* thresholds of logger.py:247, 261, 277.
Day == 1
FailedLoginThreshold == 5
ExportThreshold == 20
IpThreshold == 3

\* {"timestamp": {"$gte": yesterday}}.
gte(v, bound) == "date" \in DOMAIN v /\ v.date >= bound

\* A field that equals a value; a document without the field does not match.
field_is(doc, name, value) == name \in DOMAIN doc /\ doc[name] = value

\* logger.py:241-245.
failed_logins(docs, yesterday) ==
    Cardinality({ i \in DOMAIN docs :
                    /\ gte(docs[i].timestamp, yesterday)
                    /\ field_is(docs[i], "event_type", "LOGIN")
                    /\ field_is(docs[i], "status", "FAILURE") })

\* logger.py:256-259.
exports(docs, yesterday) ==
    Cardinality({ i \in DOMAIN docs :
                    /\ gte(docs[i].timestamp, yesterday)
                    /\ field_is(docs[i], "event_type", "EXPORT") })

\* logger.py:270-280: per user of the window, the set of its ip addresses.
ip_addresses(docs, yesterday, user) ==
    { docs[i].ip_address :
        i \in { j \in DOMAIN docs :
                  /\ gte(docs[j].timestamp, yesterday)
                  /\ field_is(docs[j], "user_id", user)
                  /\ "ip_address" \in DOMAIN docs[j] } }

multi_ip_users(docs, yesterday) ==
    { u \in { docs[i].user_id : i \in { j \in DOMAIN docs :
                                           gte(docs[j].timestamp, yesterday) } } :
        Cardinality(ip_addresses(docs, yesterday, u)) > IpThreshold }

\* logger.py:247-253, 261-267, 282-289: the findings, for the time of the scan.
suspicious_events(docs, t) ==
    LET yesterday == t - Day
    IN (IF failed_logins(docs, yesterday) > FailedLoginThreshold
        THEN {[type |-> "MULTIPLE_FAILED_LOGINS", severity |-> "HIGH",
               count |-> failed_logins(docs, yesterday)]}
        ELSE {})
       \cup
       (IF exports(docs, yesterday) > ExportThreshold
        THEN {[type |-> "EXCESSIVE_EXPORTS", severity |-> "MEDIUM",
               count |-> exports(docs, yesterday)]}
        ELSE {})
       \cup
       { [type |-> "MULTIPLE_IP_ADDRESSES", severity |-> "MEDIUM", user_id |-> u,
          ip_count |-> Cardinality(ip_addresses(docs, yesterday, u))] :
         u \in multi_ip_users(docs, yesterday) }

\* logger.py:232-291.  The pipeline of 270-278 gives $size a document where
\* MongoDB's query language takes a number; whether the server refuses the
\* command is the server's doing, so the scan meets either case.
detect_suspicious_activity_call ==
    /\ \E t \in utcnow, aggregate \in {"answered", "refused"} :
         /\ now' = t
         /\ reply' = IF aggregate = "refused"
                     THEN [kind |-> "scan", status |-> 500, at |-> t]
                     ELSE [kind |-> "scan", status |-> 200, at |-> t,
                           findings |-> suspicious_events(audit_log, t)]
    /\ UNCHANGED <<blocked, audit_log, datetime_encodable, _rate_limit_storage, serving, mongo_log,
                   ledger, next_oid, last_hash, kafka_producer, stream,
                   audit_events_total, pc, request, event_data, kafka_log, response>>

(***************************************************************************)
(* logger.py:58-159, 296-322: the recording operations.  Each builds an    *)
(* AuditEvent stamped with the clock and hands it to log_event; the four   *)
(* methods return what log_event returned, the function audit_log drops it.*)
(***************************************************************************)
Users == {"u1", "u2"}
IpAddresses == {"10.0.0.1", "10.0.0.2", "10.0.0.3", "10.0.0.4"}

\* logger.py:320.
Sensitive == {"Patient", "Claim", "Rejection"}

\* logger.py:70-82: phi_accessed is the caller's argument (default True, 65).
DataAccessEvent(t, user_id, resource_type, phi_accessed, ip_address) ==
    [timestamp |-> t, event_type |-> "ACCESS", user_id |-> user_id,
     username |-> user_id, resource_type |-> resource_type, action |-> "READ",
     status |-> "SUCCESS", ip_address |-> ip_address,
     phi_accessed |-> phi_accessed]

\* logger.py:96-108: phi_accessed is True whatever the resource.
DataModificationEvent(t, user_id, resource_type, action, ip_address) ==
    [timestamp |-> t, event_type |-> action, user_id |-> user_id,
     username |-> user_id, resource_type |-> resource_type, action |-> action,
     status |-> "SUCCESS", ip_address |-> ip_address, phi_accessed |-> TRUE]

\* logger.py:144-158: resource_type "Report", phi_accessed True.
DataExportEvent(t, user_id, ip_address) ==
    [timestamp |-> t, event_type |-> "EXPORT", user_id |-> user_id,
     username |-> user_id, resource_type |-> "Report", action |-> "EXPORT",
     status |-> "SUCCESS", ip_address |-> ip_address, phi_accessed |-> TRUE]

\* logger.py:309-321: phi_accessed computed from the resource type.
QuickEvent(t, event_type, user_id, resource_type, ip_address) ==
    [timestamp |-> t, event_type |-> event_type, user_id |-> user_id,
     username |-> user_id, resource_type |-> resource_type, action |-> "",
     status |-> "SUCCESS", ip_address |-> ip_address,
     phi_accessed |-> (resource_type \in Sensitive)]

\* logger.py:58-83.
log_data_access(user_id, resource_type, phi_accessed, ip_address) ==
    \E t \in utcnow :
        /\ now' = t
        /\ log_event(DataAccessEvent(t, user_id, resource_type, phi_accessed,
                                     ip_address))

\* logger.py:85-109.
log_data_modification(user_id, resource_type, action, ip_address) ==
    \E t \in utcnow :
        /\ now' = t
        /\ log_event(DataModificationEvent(t, user_id, resource_type, action,
                                           ip_address))

\* logger.py:135-159.
log_data_export(user_id, ip_address) ==
    \E t \in utcnow :
        /\ now' = t
        /\ log_event(DataExportEvent(t, user_id, ip_address))

\* logger.py:296-322: the module's function audit_log; it awaits log_event and
\* returns nothing.
quick_audit_log(event_type, user_id, resource_type, ip_address) ==
    /\ Len(audit_log) < MaxLogged
    /\ \E t \in utcnow, inserted \in BOOLEAN :
         /\ now' = t
         /\ audit_log' =
               IF inserted
               THEN Append(audit_log,
                           model_dump_json(QuickEvent(t, event_type, user_id,
                                                      resource_type, ip_address)))
               ELSE audit_log
         /\ reply' = [kind |-> "audit_log", status |-> 200]
    /\ UNCHANGED <<blocked, datetime_encodable, _rate_limit_storage, serving, mongo_log, ledger,
                   next_oid, last_hash, kafka_producer, stream, audit_events_total,
                   pc, request, event_data, kafka_log, response>>

(***************************************************************************)
(* kafka_producer.py, the KafkaAuditProducer taken by itself: constructed  *)
(* (22-33), started (35-50), stopped (52-57) and given events (63-95) in   *)
(* any order.  start keeps the producer of an earlier start when the new   *)
(* one cannot be built; stop closes the producer and leaves the object in  *)
(* place.  send_event catches what the client raises (93-95).              *)
(***************************************************************************)
KafkaAuditProducer == [producer |-> FALSE, connected |-> FALSE]

\* Events a caller may give to send_event: two that json.dumps encodes, and
\* one as insert_one leaves it, with the ObjectId under "_id".
PublishableEvents ==
    { [audit_id |-> <<"audit", t>>, event_type |-> "USER_LOGIN"] : t \in 1..MaxSent }
StoredEvent == [audit_id |-> <<"audit", 1>>, event_type |-> "USER_LOGIN", _id |-> 1]

\* main.py:79-82.
KafkaAuditProducer_init ==
    /\ kafka_producer = None
    /\ kafka_producer' = KafkaAuditProducer
    /\ reply' = [kind |-> "init", status |-> 200]
    /\ UNCHANGED <<blocked, audit_log, datetime_encodable, _rate_limit_storage, now,
                   serving, mongo_log, ledger, next_oid, last_hash, stream,
                   audit_events_total, pc, request, event_data, kafka_log, response>>

\* kafka_producer.py:35-50.
start(ok) ==
    /\ kafka_producer # None
    /\ kafka_producer' = [producer |-> ok \/ kafka_producer.producer,
                          connected |-> ok]
    /\ reply' = [kind |-> "start", status |-> 200, connected |-> ok]
    /\ UNCHANGED <<blocked, audit_log, datetime_encodable, _rate_limit_storage, now,
                   serving, mongo_log, ledger, next_oid, last_hash, stream,
                   audit_events_total, pc, request, event_data, kafka_log, response>>

\* kafka_producer.py:52-57.
stop ==
    /\ kafka_producer # None
    /\ kafka_producer' = IF kafka_producer.producer
                         THEN [kafka_producer EXCEPT !.connected = FALSE]
                         ELSE kafka_producer
    /\ reply' = [kind |-> "stop", status |-> 200]
    /\ UNCHANGED <<blocked, audit_log, datetime_encodable, _rate_limit_storage, now,
                   serving, mongo_log, ledger, next_oid, last_hash, stream,
                   audit_events_total, pc, request, event_data, kafka_log, response>>

\* kafka_producer.py:63-95: the call, with a broker that acknowledges the
\* record or lets future.get run into its timeout.
send_event_call(event) ==
    /\ kafka_producer # None
    /\ Len(stream) < MaxSent
    /\ \E broker \in {"accepts", "times out"} :
         LET logged == IF send_event(kafka_producer, event) = "sent"
                          /\ broker = "times out"
                       THEN "error"
                       ELSE send_event(kafka_producer, event)
         IN /\ stream' = IF logged = "sent" THEN Append(stream, event) ELSE stream
            /\ reply' = [kind |-> "send_event", status |-> 200,
                         logged |-> logged, raised |-> FALSE]
    /\ UNCHANGED <<blocked, audit_log, datetime_encodable, _rate_limit_storage, now,
                   serving, mongo_log, ledger, next_oid, last_hash, kafka_producer,
                   audit_events_total, pc, request, event_data, kafka_log, response>>

(***************************************************************************)
(* apps/api/middleware.py, the SecurityMiddleware.  dispatch (41-95)       *)
(* refuses a mutating request of another content type than JSON or form    *)
(* data, then the client address is checked against its admissions.        *)
(* _check_rate_limit (112-134) has no await: it runs as one step.  The     *)
(* address of a client not seen before has no admission (a defaultdict).   *)
(***************************************************************************)
time == now..MaxTime

\* A variant of _check_rate_limit that never forgets an admission.
_check_rate_limit_unexpired(storage, client_ip, current_time) ==
    IF Len(storage[client_ip]) >= rate_limit
    THEN [allowed |-> FALSE, storage |-> storage]
    ELSE [allowed |-> TRUE,
          storage |-> [storage EXCEPT ![client_ip] = Append(@, current_time)]]

\* middleware.py:112-134: the answer and the storage it leaves.
_check_rate_limit(storage, client_ip, current_time) ==
    LET cleaned == SelectSeq(storage[client_ip],
                             LAMBDA timestamp : current_time - timestamp < rate_window)
    IN IF Len(cleaned) >= rate_limit
       THEN [allowed |-> FALSE, storage |-> [storage EXCEPT ![client_ip] = cleaned]]
       ELSE [allowed |-> TRUE,
             storage |-> [storage EXCEPT ![client_ip] = Append(cleaned, current_time)]]

\* middleware.py:41-95.
dispatch(client_ip, content_type_ok) ==
    /\ \E current_time \in time :
         /\ now' = current_time
         /\ IF ~content_type_ok
            THEN /\ reply' = [kind |-> "dispatch", status |-> 415,
                              client_ip |-> client_ip, at |-> current_time]
                 /\ UNCHANGED _rate_limit_storage
            ELSE LET checked == _check_rate_limit(_rate_limit_storage, client_ip,
                                                  current_time)
                 IN /\ _rate_limit_storage' = checked.storage
                    /\ reply' = [kind |-> "dispatch",
                                 status |-> IF checked.allowed THEN 200 ELSE 429,
                                 client_ip |-> client_ip, at |-> current_time]
    /\ UNCHANGED <<blocked, audit_log, datetime_encodable, serving, mongo_log,
                   ledger, next_oid, last_hash, kafka_producer, stream,
                   audit_events_total, pc, request, event_data, kafka_log, response>>

\* main.py:249, 271-279 for a collection of which the store counts total
\* matching documents: the pagination block of the answer.
query_audit_logs_counted(page, limit, total) ==
    /\ reply' = [kind |-> "pagination", status |-> 200,
                 pagination |-> pagination(page, limit, total)]
    /\ UNCHANGED <<blocked, audit_log, datetime_encodable, _rate_limit_storage, now, serving, mongo_log,
                   ledger, next_oid, last_hash, kafka_producer, stream,
                   audit_events_total, pc, request, event_data, kafka_log, response>>

(***************************************************************************)
(* The specifications.  In the code as written no call gets past           *)
(* compute_event_hash, so Next has no step of the store or of the rest of  *)
(* the handler.                                                            *)
(***************************************************************************)
Next ==
    \/ lifespan_startup
    \/ lifespan_shutdown
    \/ \E p \in Calls, body \in RequestBodies : post_audit_log(p, body)
    \/ health_check_call
    \/ \E q \in QueriesByStartDate : query_audit_logs_call(q)
    \/ get_resource_timeline
    \/ detect_suspicious_activity

Spec == Init /\ [][Next]_vars

\* With an encoder that accepts a datetime, and callers that post the
\* requests of AuditLogRequests.
NextEncodable ==
    \/ lifespan_startup
    \/ lifespan_shutdown
    \/ \E p \in Calls, req \in AuditLogRequests : log_audit_event_call(p, req)
    \/ health_check
    \/ query_audit_logs
    \/ get_resource_timeline
    \/ detect_suspicious_activity
    \/ \E p \in Calls : insert_one_applied(p)
    \/ \E p \in Calls : insert_one_raises(p)
    \/ \E p \in Calls : log_audit_event_resume(p)

SpecEncodable == InitEncodable /\ [][NextEncodable]_vars

\* The same program with callers that submit one call at a time: a call is
\* made only when no other call is in flight.
log_audit_event_call_alone(p, req) ==
    /\ \A q \in Calls : ~InFlight(q)
    /\ log_audit_event_call(p, req)

NextSequential ==
    \/ lifespan_startup
    \/ lifespan_shutdown
    \/ \E p \in Calls, req \in AuditLogRequests : log_audit_event_call_alone(p, req)
    \/ \E p \in Calls : insert_one_applied(p)
    \/ \E p \in Calls : insert_one_raises(p)
    \/ \E p \in Calls : log_audit_event_resume(p)
    \/ health_check
    \/ query_audit_logs
    \/ get_resource_timeline
    \/ detect_suspicious_activity

SpecSequential == InitEncodable /\ [][NextSequential]_vars

\* With an encoder that accepts a datetime, and callers that also post a body
\* pydantic refuses.
NextSubmits ==
    \/ lifespan_startup
    \/ lifespan_shutdown
    \/ \E p \in Calls, body \in AuditLogRequests \cup {UnknownTypeBody} :
          post_audit_log(p, body)
    \/ \E p \in Calls : insert_one_applied(p)
    \/ \E p \in Calls : insert_one_raises(p)
    \/ \E p \in Calls : log_audit_event_resume(p)

SpecSubmits == InitEncodable /\ [][NextSubmits]_vars

\* One run of the process over a collection that starts empty, with callers
\* that submit one call at a time: the process is started once and not shut down.
NextOneRun ==
    \/ lifespan_startup
    \/ \E p \in Calls, req \in AuditLogRequests : log_audit_event_call_alone(p, req)
    \/ \E p \in Calls : insert_one_applied(p)
    \/ \E p \in Calls : insert_one_raises(p)
    \/ \E p \in Calls : log_audit_event_resume(p)

SpecOneRun == InitEncodable /\ [][NextOneRun]_vars

\* The service with the time the Kafka client takes made visible.
NextBroker ==
    \/ lifespan_startup
    \/ lifespan_shutdown
    \/ \E p \in Calls, req \in AuditLogRequests :
          on_event_loop(log_audit_event_call(p, req))
    \/ \E p \in Calls : insert_one_applied(p)
    \/ \E p \in Calls : on_event_loop(insert_one_raises(p))
    \/ \E p \in Calls :
          on_event_loop(~Publishing(kafka_producer) /\ log_audit_event_resume(p))
    \/ \E p \in Calls : send_event_waits(p)
    \/ \E p \in Calls : send_event_returns(p)

SpecBroker == InitEncodable /\ [][NextBroker]_vars

(***************************************************************************)
(* The read paths over a collection that holds events.  The collection is  *)
(* the one left by submits made one after the other, each returned before  *)
(* the next was made (main.py:156-181), with a digest that can be          *)
(* computed; the service has been started over it (main.py:56-86).         *)
(***************************************************************************)
RECURSIVE Submitted(_)
Submitted(es) ==
    IF es = <<>>
    THEN <<>>
    ELSE LET before == Submitted(SubSeq(es, 1, Len(es) - 1))
             tip == IF before = <<>> THEN genesis
                    ELSE before[Len(before)].integrity.hash
             data == EventDocument(es[Len(es)].req, es[Len(es)].t)
         IN Append(before, WithIntegrity(data, compute_event_hash(data, tip),
                                         tip, Len(es)))

\* The submits made: the request and the reading of the clock of each.
HistoriesOf(requests) ==
    UNION { { es \in [1..n -> [req : requests, t : 1..MaxClock]] :
                \A a, b \in 1..n : a < b => es[a].t <= es[b].t } :
            n \in 0..MaxStored }

Histories == HistoriesOf(AuditLogRequests)

StartedOver(es) ==
    /\ datetime_encodable = TRUE
    /\ now = IF es = <<>> THEN 1 ELSE es[Len(es)].t
    /\ serving = TRUE
    /\ mongo_log = "established"
    /\ ledger = Submitted(es)
    /\ next_oid = Len(es) + 1
    /\ last_hash \in IF es = <<>> THEN {genesis}
                     ELSE { LoadedHash(ledger, i) : i \in Latest(ledger) }
    /\ kafka_producer = KafkaStarted(TRUE)
    /\ stream = <<>>
    /\ audit_events_total = [l \in Labels |-> 0]
    /\ pc = [p \in Calls |-> "idle"]
    /\ request = [p \in Calls |-> None]
    /\ event_data = [p \in Calls |-> None]
    /\ kafka_log = [p \in Calls |-> "none"]
    /\ response = [p \in Calls |-> None]
    /\ reply = None
    /\ blocked = 0
    /\ audit_log = <<>>
    /\ _rate_limit_storage = [client_ip \in ClientIps |-> <<>>]

InitStored == \E es \in Histories : StartedOver(es)

\* A read answers from the collection and its parameters alone, so each
\* behaviour asks one.
NextQuery == reply = None /\ \E q \in QueryParams : query_audit_logs_call(q)

SpecQuery == InitStored /\ [][NextQuery]_vars

\* The timeline over collections that hold events of a resource stamped by
\* the service and by the caller, and over collections of about TimelineCap
\* events of one resource: those left by submits that overlapped, all made at
\* one reading of the clock against the tip "genesis" (main.py:173-180), each
\* with a timestamp of its own supplied by the caller, the newest first.
ClaimTouched ==
    [eventType |-> "DATA_MODIFIED", actor |-> Actor1, resource |-> Claim1,
     action |-> "UPDATE", outcome |-> "SUCCESS", timestamp |-> NoTimestamp]

ClaimTouchedAt(timestamp) == [ClaimTouched EXCEPT !.timestamp = timestamp]

Overlapped(n) ==
    [k \in 1..n |->
        LET data == EventDocument(ClaimTouchedAt(n + 1 - k), 1)
        IN WithIntegrity(data, compute_event_hash(data, genesis), genesis, k)]

StartedOverOverlapped(n) ==
    /\ datetime_encodable = TRUE
    /\ now = 1
    /\ serving = TRUE
    /\ mongo_log = "established"
    /\ ledger = Overlapped(n)
    /\ next_oid = n + 1
    /\ last_hash = IF n = 0 THEN genesis ELSE LoadedHash(ledger, 1)
    /\ kafka_producer = KafkaStarted(TRUE)
    /\ stream = <<>>
    /\ audit_events_total = [l \in Labels |-> 0]
    /\ pc = [p \in Calls |-> "idle"]
    /\ request = [p \in Calls |-> None]
    /\ event_data = [p \in Calls |-> None]
    /\ kafka_log = [p \in Calls |-> "none"]
    /\ response = [p \in Calls |-> None]
    /\ reply = None
    /\ blocked = 0
    /\ audit_log = <<>>
    /\ _rate_limit_storage = [client_ip \in ClientIps |-> <<>>]

InitTimeline ==
    \/ \E es \in HistoriesOf(AuditLogRequests \cup {ClaimTouched}) : StartedOver(es)
    \/ \E n \in TimelineCap..(TimelineCap + 1) : StartedOverOverlapped(n)

NextTimeline ==
    /\ reply = None
    /\ \E resource_type \in {"Claim", "Patient"}, resource_id \in {"c1", "c2"} :
          get_resource_timeline_call(resource_type, resource_id)

SpecTimeline == InitTimeline /\ [][NextTimeline]_vars

\* The AuditLogger and the writers of db.audit_log.
NextLogger ==
    \/ \E success \in BOOLEAN : log_authentication(success)
    \/ api_audit_log
    \/ detect_suspicious_activity_call

SpecLogger == Init /\ [][NextLogger]_vars

\* The scan over a collection filled by log_data_access for users who come
\* from several addresses.
NextAddresses ==
    \/ /\ Len(audit_log) < MaxAccesses
       /\ \E user_id \in Users, ip_address \in IpAddresses :
             log_data_access(user_id, "Patient", TRUE, ip_address)
    \/ detect_suspicious_activity_call

SpecAddresses == Init /\ [][NextAddresses]_vars

\* The recording operations as their callers may use them.
NextRecorder ==
    \/ /\ Len(audit_log) < MaxRecorded
       /\ \/ \E resource_type \in {"Patient", "Report"}, phi_accessed \in BOOLEAN :
                log_data_access("u1", resource_type, phi_accessed, "10.0.0.1")
          \/ \E resource_type \in {"Claim", "Report"} :
                log_data_modification("u1", resource_type, "UPDATE", "10.0.0.1")
          \/ \E success \in BOOLEAN : log_authentication(success)
          \/ log_data_export("u1", "10.0.0.1")
          \/ \E resource_type \in {"Patient", "Report"} :
                quick_audit_log("ACCESS", "u1", resource_type, "10.0.0.1")

SpecRecorder == Init /\ [][NextRecorder]_vars

\* The scan beside a ledger that holds accepted submits, among them runs of
\* failed logins longer than the scan's threshold.
FailedLogin ==
    [eventType |-> "USER_LOGIN", actor |-> Actor1, resource |-> None,
     action |-> "EXECUTE", outcome |-> "FAILURE", timestamp |-> NoTimestamp]

FailedLoginHistories ==
    UNION { { es \in [1..n -> [req : {FailedLogin}, t : 1..MaxClock]] :
                \A a, b \in 1..n : a < b => es[a].t <= es[b].t } :
            n \in 0..MaxLogins }

InitScanner == \E es \in Histories \cup FailedLoginHistories : StartedOver(es)

NextScanner == reply = None /\ detect_suspicious_activity_call

SpecScanner == InitScanner /\ [][NextScanner]_vars

\* The KafkaAuditProducer under every order of its calls.
NextProducer ==
    \/ KafkaAuditProducer_init
    \/ \E ok \in BOOLEAN : start(ok)
    \/ stop
    \/ \E event \in PublishableEvents \cup {StoredEvent} : send_event_call(event)

SpecProducer == InitEncodable /\ [][NextProducer]_vars

\* The requests that reach the SecurityMiddleware.
NextMiddleware ==
    \E client_ip \in ClientIps, content_type_ok \in BOOLEAN :
        dispatch(client_ip, content_type_ok)

SpecMiddleware == Init /\ [][NextMiddleware]_vars

\* The page count for every count the store may return and every limit
\* FastAPI accepts.
NextPagination ==
    /\ reply = None
    /\ \E total \in 0..MaxTotal, limit \in 1..MaxLimit :
          query_audit_logs_counted(1, limit, total)

SpecPagination == InitEncodable /\ [][NextPagination]_vars

(***************************************************************************)
(* Properties of the ledger and of the chain tip.                          *)
(***************************************************************************)
Hash(e) == e.integrity.hash
Prev(e) == e.integrity.previous_hash
Last(q) == q[Len(q)]
AtInsert(p) == event_data[p] # None
Persisted(p) == \E i \in DOMAIN ledger : ledger[i] = event_data[p]
ReadStep ==
    health_check \/ query_audit_logs \/ get_resource_timeline
                 \/ detect_suspicious_activity

SuccessfulIngestion ==
    \A p \in Calls :
        (pc[p] # "idle" /\ AuditLogRequest(request[p])) =>
            \/ InFlight(p)
            \/ pc[p] = "failed" /\ AtInsert(p)
            \/ pc[p] = "done" /\ Persisted(p) /\ response[p].logged

\* C12: a submit whose eventType, action or outcome is outside its enumeration,
\* or whose actor.userId or actor.username is empty, is answered with the
\* schema error, and the step that rejects it leaves the ledger, the tip, the
\* stream and the counters unchanged.
SchemaInvalid(body) ==
    \/ ~AuditLogRequest(body)
    \/ body.actor.userId = ""
    \/ body.actor.username = ""

SchemaValidation ==
    /\ [](\A p \in Calls :
            (pc[p] # "idle" /\ SchemaInvalid(request[p])) => response[p] = HTTP422)
    /\ [][\A p \in Calls :
            (pc[p] = "idle" /\ pc'[p] # "idle" /\ SchemaInvalid(request'[p])) =>
                UNCHANGED <<ledger, last_hash, stream, audit_events_total>>]_vars

\* C13: a health answer that reports on the stream says "healthy" exactly when
\* the store is reachable and the stream is connected, "degraded" when the
\* store is reachable and the stream is disconnected, and "unhealthy" when the
\* store is unreachable; store and stream are reported in fields of their own.
HealthStatus ==
    (reply # None /\ reply.kind = "health" /\ reply.kafka # "absent") =>
        /\ reply.status = "healthy" <=>
               (reply.mongodb = "connected" /\ reply.kafka = "connected")
        /\ (reply.mongodb = "connected" /\ reply.kafka = "disconnected") =>
               reply.status = "degraded"
        /\ reply.mongodb = "disconnected" => reply.status = "unhealthy"

Digested(e) == [k \in DOMAIN e \ {"integrity", "_id"} |-> e[k]]

Selected(e, q) ==
    /\ (q.actor_id # "") => (e.actor.userId = q.actor_id)
    /\ (q.resource_type # "") =>
          (e.resource # None /\ e.resource.resourceType = q.resource_type)
    /\ (q.resource_id # "") =>
          (e.resource # None /\ e.resource.resourceId = q.resource_id)
    /\ (q.event_type # "") => (e.event_type = q.event_type)
    /\ (q.start_date # None) => (q.start_date.iso <= e.timestamp)
    /\ (q.end_date # None) => (e.timestamp <= q.end_date.iso)

Answered(kind) == reply # None /\ reply.kind = kind /\ reply.status = 200

QueryResultContent ==
    Answered("query") =>
        LET q == reply.asked
            first == (q.page - 1) * q.limit
            M == { i \in DOMAIN ledger : Selected(ledger[i], q) }
            n == Len(reply.events)
            Newer(i) == { j \in M : ledger[j].timestamp > ledger[i].timestamp }
            NotOlder(i) == { j \in M : ledger[j].timestamp >= ledger[i].timestamp }
        IN /\ n <= q.limit
           /\ reply.pagination.total = Cardinality(M)
           /\ n = IF Cardinality(M) <= first THEN 0
                  ELSE IF Cardinality(M) - first < q.limit
                       THEN Cardinality(M) - first ELSE q.limit
           /\ \E at \in [1..n -> M] :
                 /\ \A a, b \in 1..n : a # b => at[a] # at[b]
                 /\ \A k \in 1..n :
                       /\ reply.events[k] = AuditEvent(ledger[at[k]])
                       /\ Cardinality(Newer(at[k])) <= first + k - 1
                       /\ Cardinality(NotOlder(at[k])) >= first + k
                 /\ \A a, b \in 1..n :
                       a < b => ledger[at[a]].timestamp >= ledger[at[b]].timestamp

\* C16 witness: the second page of one event each, of a collection whose
\* events were not inserted in descending order of timestamp and of which some
\* but not all match the filter.
SecondPageOfFiltered ==
    /\ Answered("query")
    /\ reply.asked.page = 2 /\ reply.asked.limit = 1 /\ Len(reply.events) = 1
    /\ reply.pagination.total >= 2 /\ reply.pagination.total < Len(ledger)
    /\ \E i, j \in DOMAIN ledger : i < j /\ ledger[i].timestamp < ledger[j].timestamp

\* C17: totalPages is the least number of pages of limit events that hold
\* total events, ceil(total / limit); 101 events at 50 a page make 3 pages and
\* no event makes 0 pages.
Ceil(total, limit) ==
    CHOOSE k \in 0..total :
        k * limit >= total /\ (k = 0 \/ (k - 1) * limit < total)

PaginationMath ==
    Answered("pagination") =>
        LET pg == reply.pagination
        IN /\ pg.totalPages = Ceil(pg.total, pg.limit)
           /\ (pg.total = 101 /\ pg.limit = 50) => pg.totalPages = 3
           /\ pg.total = 0 => pg.totalPages = 0

\* C17 witness: 101 matching events asked for 50 a page.
ThreePagesFor101 ==
    /\ Answered("pagination")
    /\ reply.pagination.total = 101 /\ reply.pagination.limit = 50
    /\ reply.pagination.totalPages = 3

\* C18: a query whose start or end date is not an ISO-8601 date is answered
\* with an empty result set, not with a failure.
MalformedFilter(q) ==
    \/ q.start_date # None /\ "iso" \notin DOMAIN q.start_date
    \/ q.end_date # None /\ "iso" \notin DOMAIN q.end_date

FilterErrorsDegrade ==
    (reply # None /\ reply.kind = "query" /\ MalformedFilter(reply.asked)) =>
        reply.status = 200 /\ reply.events = <<>>

\* C19: a timeline holds events of the resource asked for and no other, in
\* ascending order of timestamp whatever the order of insertion, never more
\* than 1000 of them, and when more than 1000 match, the 1000 with the smallest
\* timestamps.
TimelineOrderingAndCap ==
    Answered("timeline") =>
        LET M == { i \in DOMAIN ledger :
                     /\ ledger[i].resource # None
                     /\ ledger[i].resource.resourceType = reply.resourceType
                     /\ ledger[i].resource.resourceId = reply.resourceId }
            tl == reply.timeline
            n == Len(tl)
            Older(t) == { j \in M : ledger[j].timestamp < t }
            NotNewer(t) == { j \in M : ledger[j].timestamp <= t }
        IN /\ n <= 1000
           /\ n = IF Cardinality(M) < 1000 THEN Cardinality(M) ELSE 1000
           /\ \A k \in 1..n : \E i \in M : tl[k] = TimelineEntry(ledger[i])
           /\ \A k \in 1..(n - 1) : tl[k].timestamp <= tl[k + 1].timestamp
           /\ \A k \in 1..n :
                 /\ Cardinality(Older(tl[k].timestamp)) <= k - 1
                 /\ Cardinality(NotNewer(tl[k].timestamp)) >= k
           /\ \A i \in M :
                 Cardinality(NotNewer(ledger[i].timestamp)) <= n =>
                     \E k \in 1..n : tl[k] = TimelineEntry(ledger[i])

\* C19 witness: three events of the resource inserted as T2, T3, T1 come back
\* as T1, T2, T3.
TimelineOutOfInsertionOrder ==
    /\ Answered("timeline")
    /\ Len(ledger) = 3 /\ Len(reply.timeline) = 3
    /\ ledger[3].timestamp < ledger[1].timestamp
    /\ ledger[1].timestamp < ledger[2].timestamp
    /\ reply.timeline[1].timestamp = ledger[3].timestamp
    /\ reply.timeline[2].timestamp = ledger[1].timestamp
    /\ reply.timeline[3].timestamp = ledger[2].timestamp

\* More than 1000 events of the resource are stored and the timeline holds the
\* 1000 oldest.
TimelineCapped ==
    /\ Answered("timeline")
    /\ Len(ledger) > 1000 /\ Len(reply.timeline) = 1000
    /\ reply.timeline[1000].timestamp = 1000

\* C20: a scan returns a MULTIPLE_FAILED_LOGINS finding of severity HIGH
\* exactly when more than 5 stored login events with outcome FAILURE are
\* stamped within the 24 hours before the scan, and the finding carries their
\* number.
Instant(doc) ==
    IF "iso" \in DOMAIN doc.timestamp THEN doc.timestamp.iso ELSE doc.timestamp.date

FailedLoginsStored(docs, t) ==
    { i \in DOMAIN docs :
        /\ "event_type" \in DOMAIN docs[i] /\ docs[i].event_type = "LOGIN"
        /\ "status" \in DOMAIN docs[i] /\ docs[i].status = "FAILURE"
        /\ Instant(docs[i]) >= t - 1 }

FailedLoginThresholdFinding ==
    [][(/\ reply' # None /\ reply'.kind = "scan" /\ reply'.status = 200
        /\ audit_log' = audit_log) =>
          LET n == Cardinality(FailedLoginsStored(audit_log, reply'.at))
              found == { f \in reply'.findings : f.type = "MULTIPLE_FAILED_LOGINS" }
          IN /\ (found # {}) <=> (n > 5)
             /\ \A f \in found : f.severity = "HIGH" /\ f.count = n
             /\ Cardinality(found) <= 1]_vars

\* C21: for every user, a scan returns exactly one MULTIPLE_IP_ADDRESSES
\* finding of severity MEDIUM exactly when the user's stored events stamped
\* within the 24 hours before the scan come from more than 3 distinct
\* addresses, and the finding carries the number of those addresses.
AddressesStored(docs, t, user_id) ==
    { docs[i].ip_address :
        i \in { j \in DOMAIN docs :
                  /\ "ip_address" \in DOMAIN docs[j]
                  /\ docs[j].user_id = user_id
                  /\ Instant(docs[j]) >= t - Day } }

MultiIpFinding ==
    [][(/\ reply' # None /\ reply'.kind = "scan" /\ reply'.status = 200
        /\ audit_log' = audit_log) =>
          \A u \in Users :
             LET n == Cardinality(AddressesStored(audit_log, reply'.at, u))
                 found == { f \in reply'.findings :
                              f.type = "MULTIPLE_IP_ADDRESSES" /\ f.user_id = u }
             IN /\ (n > 3) => Cardinality(found) = 1
                /\ (n <= 3) => found = {}
                /\ \A f \in found : f.severity = "MEDIUM" /\ f.ip_count = n]_vars

\* C23: in every event stored through a recording operation of the logger the
\* phi_accessed flag is true exactly when the resource type is one of Patient,
\* Claim, Rejection.
PhiAccessedDerived ==
    \A i \in DOMAIN audit_log :
        "phi_accessed" \in DOMAIN audit_log[i] =>
            (audit_log[i].phi_accessed <=> audit_log[i].resource_type \in Sensitive)

\* C30: a recording operation returns True only when its event was appended to
\* the collection, and returns False, leaving the collection as it was, when
\* the insert failed.
LogEventReportsFailure ==
    [][(reply' # None /\ reply'.kind = "log_event") =>
          /\ reply'.returned =>
                /\ Len(audit_log') = Len(audit_log) + 1
                /\ SubSeq(audit_log', 1, Len(audit_log)) = audit_log
          /\ ~reply'.returned => audit_log' = audit_log]_vars

InsertFailureReportedFalse ==
    /\ reply # None /\ reply.kind = "log_event" /\ ~reply.returned
    /\ audit_log # <<>>
    /\ \E i \in DOMAIN audit_log : audit_log[i].event_type = "EXPORT"

\* C22: the scan counts the events the ingestion service has persisted: when
\* the ledger holds more than 5 events of type USER_LOGIN with outcome FAILURE
\* stamped within the 24 hours before the scan, the scan reports
\* MULTIPLE_FAILED_LOGINS.
FailedLoginsAccepted(docs, t) ==
    { i \in DOMAIN docs :
        /\ docs[i].event_type = "USER_LOGIN"
        /\ docs[i].outcome = "FAILURE"
        /\ docs[i].timestamp >= t - Day }

Younger(client_ip, current_time) ==
    SelectSeq(_rate_limit_storage[client_ip],
              LAMBDA timestamp : current_time - timestamp < rate_window)

PerIpRateLimit ==
    /\ [](\A client_ip \in ClientIps :
             Len(_rate_limit_storage[client_ip]) <= rate_limit)
    /\ [][(reply' # None /\ reply'.kind = "dispatch" /\ reply'.status \in {200, 429}) =>
            LET client_ip == reply'.client_ip
                young == Younger(client_ip, reply'.at)
            IN /\ (reply'.status = 200) <=> (Len(young) < rate_limit)
               /\ _rate_limit_storage'[client_ip] =
                     IF reply'.status = 200 THEN Append(young, reply'.at) ELSE young
               /\ \A other \in ClientIps \ {client_ip} :
                     _rate_limit_storage'[other] = _rate_limit_storage[other]]_vars

\* A client is admitted again after its window has passed, while another
\* client still holds admissions.
AdmittedAgainAfterWindow ==
    /\ reply # None /\ reply.kind = "dispatch" /\ reply.status = 200
    /\ reply.at > rate_window
    /\ _rate_limit_storage[reply.client_ip] = <<reply.at>>
    /\ \E other \in ClientIps \ {reply.client_ip} :
          Len(_rate_limit_storage[other]) = rate_limit

\* C25: an event is handed to the publisher only when it is in the ledger, with
\* the audit_id and the integrity block it is handed over with; the event of a
\* call whose insert failed or is pending, or whose request was rejected, has
\* not been handed over; a call hands its event over once, whatever became of
\* it; the stream holds no event twice.
HandedOver(p) == kafka_log[p] # "none"

Label(p) == <<request[p].eventType, request[p].outcome>>

DisconnectedPublisherDrops ==
    /\ [](kafka_producer # None =>
             (kafka_producer.connected => kafka_producer.producer))
    /\ [][(/\ kafka_producer # None /\ ~kafka_producer.connected
           /\ reply' # None /\ reply'.kind = "send_event") =>
             /\ stream' = stream
             /\ kafka_producer' = kafka_producer
             /\ reply'.logged = "skipped"
             /\ ~reply'.raised]_vars
    /\ [][(/\ kafka_producer' # None /\ kafka_producer'.connected
           /\ (kafka_producer = None \/ ~kafka_producer.connected)) =>
             reply'.kind = "start" /\ reply'.connected]_vars
    /\ [][(reply' # None /\ reply'.kind = "stop") =>
             ~kafka_producer'.connected]_vars

DroppedAfterStop ==
    /\ reply # None /\ reply.kind = "send_event" /\ reply.logged = "skipped"
    /\ kafka_producer = [producer |-> TRUE, connected |-> FALSE]
    /\ stream # <<>>

====
